---- MODULE Spec2Model ----
(***************************************************************************)
(* Multi-step form controller (src/src/task3/context/form-context.tsx).    *)
(*                                                                         *)
(* Strings are sequences of one-character strings, so that length, trim    *)
(* and the e-mail pattern are computed character by character.            *)
(*                                                                         *)
(* Every handler of the provider is an operator over two records: c, the   *)
(* values the handler closed over at the render that created it, and s,    *)
(* the state React holds when the handler's updates are applied.  The      *)
(* specification Spec runs one handler per step and re-renders after it,   *)
(* as React does after every discrete DOM event and after the timer        *)
(* continuation, so there c = s.                                           *)
(***************************************************************************)
EXTENDS Integers, Sequences, FiniteSets, TLC

VARIABLES formData, errors, currentStep, isSubmitting, pending, last,
          input, verdict,
          remote, searchTerm, calls, inflight, renders

\* the users screen (task1): the fetched list, the query, the outbound calls
\* issued and still unanswered, the renders of the screen
usersVars == <<remote, searchTerm, calls, inflight, renders>>

vars == <<formData, errors, currentStep, isSubmitting, pending, last,
          input, verdict, usersVars>>

----------------------------------------------------------------------------
(* Bounds and program constants *)

\* in-flight simulated submissions the model follows at once
MaxPending == 2
\* longest string drawn for the rule checks of name, email, address, preferences
MaxLen == 5
\* longest string drawn for the rule checks of phone
MaxPhoneLen == 11
\* longest list the users endpoint answers with
MaxItems == 2
\* longest query typed letter by letter into the search input
MaxQueryLen == 2
\* renders of the users screen the model follows
MaxRenders == 4
\* clicks on one button the model follows
MaxClicks == 5

FirstStep == 1
LastStep == 3
RequiredMinLength == 1
NameMinLength == 2
PhoneMinLength == 10
AddressMinLength == 5
SignUpNameMinLength == 2
PasswordMinLength == 6

----------------------------------------------------------------------------
(* Strings *)

WhiteSpace == {" ", "\t"}

Min(a, b) == IF a <= b THEN a ELSE b
Max(a, b) == IF a >= b THEN a ELSE b

RECURSIVE trimStart(_)
trimStart(val) ==
  IF val # <<>> /\ Head(val) \in WhiteSpace THEN trimStart(Tail(val)) ELSE val

RECURSIVE trimEnd(_)
trimEnd(val) ==
  IF val # <<>> /\ val[Len(val)] \in WhiteSpace
  THEN trimEnd(SubSeq(val, 1, Len(val) - 1))
  ELSE val

\* String.prototype.trim
trim(val) == trimEnd(trimStart(val))

\* val[a..b] is a non-empty run of [^\s@]
plainRun(val, a, b) ==
  /\ a <= b
  /\ \A k \in a..b : val[k] \notin WhiteSpace /\ val[k] # "@"

\* /^[^\s@]+@[^\s@]+\.[^\s@]+$/.test(val)
emailRegexTest(val) ==
  \E i \in 1..Len(val), j \in 1..Len(val) :
    /\ i < j
    /\ val[i] = "@"
    /\ val[j] = "."
    /\ plainRun(val, 1, i - 1)
    /\ plainRun(val, i + 1, j - 1)
    /\ plainRun(val, j + 1, Len(val))

----------------------------------------------------------------------------
(* Zod schemas: each field maps to the messages of its failing checks, in  *)
(* the order the checks are chained.  A failing min() marks the value      *)
(* dirty, not aborted, so the refinement chained after it still runs.      *)

\* z.string().min(n, message)
minIssues(val, n, message) == IF Len(val) < n THEN <<message>> ELSE <<>>

\* .refine(pred, {message})
refineIssues(ok, message) == IF ok THEN <<>> ELSE <<message>>

\* mutant: the length is taken without trim()
nameRefine_untrimmed(val) == Len(val) >= NameMinLength

nameRefine(val) == Len(trim(val)) >= NameMinLength
emailRefine(val) == emailRegexTest(val)
phoneRefine(val) == Len(trim(val)) >= PhoneMinLength
addressRefine(val) == Len(trim(val)) >= AddressMinLength

nameIssues(val) ==
  minIssues(val, RequiredMinLength, "Name is required")
    \o refineIssues(nameRefine(val), "Name must be at least 2 characters")

emailIssues(val) ==
  minIssues(val, RequiredMinLength, "Email is required")
    \o refineIssues(emailRefine(val), "Invalid email address")

phoneIssues(val) ==
  minIssues(val, RequiredMinLength, "Phone is required")
    \o refineIssues(phoneRefine(val), "Phone must be at least 10 characters")

addressIssues(val) ==
  minIssues(val, RequiredMinLength, "Address is required")
    \o refineIssues(addressRefine(val), "Address must be at least 5 characters")

preferencesIssues(val) ==
  minIssues(val, RequiredMinLength, "Please select a preference")

\* z.boolean()
newsletterIssues(val) ==
  IF val \in BOOLEAN THEN <<>> ELSE <<"Expected boolean">>

step1Schema(obj) ==
  [name |-> nameIssues(obj.name), email |-> emailIssues(obj.email)]

step2Schema(obj) ==
  [phone |-> phoneIssues(obj.phone), address |-> addressIssues(obj.address)]

step3Schema(obj) ==
  [preferences |-> preferencesIssues(obj.preferences),
   newsletter |-> newsletterIssues(obj.newsletter)]

----------------------------------------------------------------------------
(* Controller state *)

Fields == {"name", "email", "phone", "address", "preferences", "newsletter"}

EmptyErrors == [f \in {} |-> ""]

InitialFormData ==
  [name |-> <<>>, email |-> <<>>, phone |-> <<>>, address |-> <<>>,
   preferences |-> <<>>, newsletter |-> FALSE]

\* the record of the four useState cells
State ==
  [formData |-> formData, errors |-> errors, currentStep |-> currentStep,
   isSubmitting |-> isSubmitting]

without(e, field) == [k \in DOMAIN e \ {field} |-> e[k]]

\* mutant: the edit empties errors instead of deleting one key
updateField_clearsAll(c, s, field, value) ==
  [s EXCEPT !.formData = [@ EXCEPT ![field] = value],
            !.errors = IF field \in DOMAIN c.errors THEN EmptyErrors ELSE @]

\* mutant: the edit leaves the error of the field in place
updateField_keepsError(c, s, field, value) ==
  [s EXCEPT !.formData = [@ EXCEPT ![field] = value]]

\* updateField: the functional setFormData update applies to s; whether the
\* error is removed is decided on the errors the handler closed over
updateField(c, s, field, value) ==
  [s EXCEPT !.formData = [@ EXCEPT ![field] = value],
            !.errors = IF field \in DOMAIN c.errors THEN without(@, field)
                       ELSE @]

\* mutant: every step parses the three schemas over the whole form
parseStep_wholeForm(c, step) ==
  LET s1 == step1Schema([name |-> c.formData.name, email |-> c.formData.email])
      s2 == step2Schema([phone |-> c.formData.phone,
                         address |-> c.formData.address])
      s3 == step3Schema([preferences |-> c.formData.preferences,
                         newsletter |-> c.formData.newsletter])
  IN  [f \in Fields |-> IF f \in DOMAIN s1 THEN s1[f]
                        ELSE IF f \in DOMAIN s2 THEN s2[f] ELSE s3[f]]

\* mutant: the last branch is a plain else, so any other step parses step 3
parseStep_elseLastSchema(c, step) ==
  IF step = 1
    THEN step1Schema([name |-> c.formData.name, email |-> c.formData.email])
  ELSE IF step = 2
    THEN step2Schema([phone |-> c.formData.phone,
                      address |-> c.formData.address])
  ELSE step3Schema([preferences |-> c.formData.preferences,
                    newsletter |-> c.formData.newsletter])

\* the schema parse of validateStep: messages per field of the step's schema,
\* over the formData the handler closed over; no schema for other steps
parseStep(c, step) ==
  IF step = 1
    THEN step1Schema([name |-> c.formData.name, email |-> c.formData.email])
  ELSE IF step = 2
    THEN step2Schema([phone |-> c.formData.phone,
                      address |-> c.formData.address])
  ELSE IF step = 3
    THEN step3Schema([preferences |-> c.formData.preferences,
                      newsletter |-> c.formData.newsletter])
  ELSE [f \in {} |-> <<>>]

\* mutant: the last message of each field is kept instead of the first
firstMessages_takesLast(issues) ==
  [f \in {k \in DOMAIN issues : issues[k] # <<>>} |->
     issues[f][Len(issues[f])]]

\* error.flatten().fieldErrors, then messages[0] per field
firstMessages(issues) ==
  [f \in {k \in DOMAIN issues : issues[k] # <<>>} |-> issues[f][1]]

\* mutant: a passing validation leaves errors as they were
validateStep_keepsErrorsOnPass(c, s, step) ==
  LET issues == parseStep(c, step)
      thrown == \E f \in DOMAIN issues : issues[f] # <<>>
  IN  IF ~thrown
        THEN [ret |-> TRUE, st |-> s]
        ELSE [ret |-> FALSE,
              st |-> [s EXCEPT !.errors = firstMessages(issues)]]

\* mutant: new errors are merged into the previous ones
validateStep_mergesErrors(c, s, step) ==
  LET issues == parseStep(c, step)
      thrown == \E f \in DOMAIN issues : issues[f] # <<>>
      new == firstMessages(issues)
  IN  IF ~thrown
        THEN [ret |-> TRUE, st |-> [s EXCEPT !.errors = EmptyErrors]]
        ELSE [ret |-> FALSE,
              st |-> [s EXCEPT !.errors =
                        [f \in DOMAIN @ \cup DOMAIN new |->
                           IF f \in DOMAIN new THEN new[f] ELSE @[f]]]]

\* mutant: a failed parse is caught without setErrors
validateStep_silentFailure(c, s, step) ==
  LET issues == parseStep(c, step)
      thrown == \E f \in DOMAIN issues : issues[f] # <<>>
  IN  IF ~thrown
        THEN [ret |-> TRUE, st |-> [s EXCEPT !.errors = EmptyErrors]]
        ELSE [ret |-> FALSE, st |-> s]

\* validateStep: [ret, st] - the boolean returned and the state after setErrors
validateStep(c, s, step) ==
  LET issues == parseStep(c, step)
      thrown == \E f \in DOMAIN issues : issues[f] # <<>>
  IN  IF ~thrown
        THEN [ret |-> TRUE, st |-> [s EXCEPT !.errors = EmptyErrors]]
        ELSE [ret |-> FALSE,
              st |-> [s EXCEPT !.errors = firstMessages(issues)]]

\* mutant: the step is incremented without the Math.min clamp
stepForward_noClamp(prev) == prev + 1

\* setCurrentStep(prev => Math.min(prev + 1, 3))
stepForward(prev) == Min(prev + 1, LastStep)

\* setCurrentStep(prev => Math.max(prev - 1, 1))
stepBack(prev) == Max(prev - 1, FirstStep)

\* mutant: the step advances whatever validateStep returned
nextStep_ignoresValidation(c, s) ==
  LET v == validateStep(c, s, c.currentStep)
  IN  [ret |-> v.ret, st |-> [v.st EXCEPT !.currentStep = stepForward(@)]]

\* nextStep: [ret, st] - ret is what validateStep(currentStep) returned
nextStep(c, s) ==
  LET v == validateStep(c, s, c.currentStep)
  IN  IF v.ret
        THEN [ret |-> TRUE,
              st |-> [v.st EXCEPT !.currentStep = stepForward(@)]]
        ELSE [ret |-> FALSE, st |-> v.st]

\* mutant: setErrors({}) is missing from prevStep
prevStep_keepsErrors(c, s) == [s EXCEPT !.currentStep = stepBack(@)]

prevStep(c, s) ==
  [s EXCEPT !.currentStep = stepBack(@), !.errors = EmptyErrors]

\* mutant: the early return on a failed validation is missing
submitForm_noEarlyReturn(c, s) ==
  LET v == validateStep(c, s, c.currentStep)
  IN  [ret |-> TRUE, st |-> [v.st EXCEPT !.isSubmitting = TRUE]]

\* mutant: a call made while isSubmitting is true returns at once
submitForm_guarded(c, s) ==
  LET v == validateStep(c, s, c.currentStep)
  IN  IF c.isSubmitting THEN [ret |-> FALSE, st |-> s]
      ELSE IF ~v.ret THEN [ret |-> FALSE, st |-> v.st]
      ELSE [ret |-> TRUE, st |-> [v.st EXCEPT !.isSubmitting = TRUE]]

\* submitForm up to the await: [ret, st] - ret says the timer was started
submitForm(c, s) ==
  LET v == validateStep(c, s, c.currentStep)
  IN  IF ~v.ret
        THEN [ret |-> FALSE, st |-> v.st]
        ELSE [ret |-> TRUE, st |-> [v.st EXCEPT !.isSubmitting = TRUE]]

\* mutant: the setFormData reset is missing after the await
submitFormResume_keepsFields(s) ==
  [s EXCEPT !.isSubmitting = FALSE, !.currentStep = FirstStep,
            !.errors = EmptyErrors]

\* mutant: setIsSubmitting(false) is missing after the await
submitFormResume_staysSubmitting(s) ==
  [s EXCEPT !.formData = InitialFormData, !.currentStep = FirstStep,
            !.errors = EmptyErrors]

\* submitForm after the await: setIsSubmitting(false) and the reset
submitFormResume(s) ==
  [s EXCEPT !.isSubmitting = FALSE, !.formData = InitialFormData,
            !.currentStep = FirstStep, !.errors = EmptyErrors]

----------------------------------------------------------------------------
(* An absent value (null) is the empty sequence, a present one <<value>> *)

None == <<>>
Some(x) == <<x>>

\* the users screen before it is mounted: nothing fetched, nothing rendered
UsersNotMounted ==
  /\ remote = [status |-> "Pending", items |-> None, failure |-> None]
  /\ searchTerm = <<>>
  /\ calls = 0
  /\ inflight = 0
  /\ renders = 0

----------------------------------------------------------------------------
(* Inputs of the controller specification *)

NameValues == {<<>>, <<"A">>, <<"A", "l">>}
EmailValues == {<<>>, <<"x">>, <<"a", "@", "b", ".", "c", "o", "m">>}
PhoneValues ==
  {<<>>, <<"0", "1", "2", "3", "4", "5", "6", "7", "8", "9">>,
   <<"0", "1", "2", "3", "4", "5", "6", "7", "8", " ">>}
AddressValues == {<<>>, <<"1", " ", "E", "l", "m">>}
PreferencesValues == {<<>>, <<"m", "a", "i", "l">>}

ValuesOf(field) ==
  CASE field = "name" -> NameValues
    [] field = "email" -> EmailValues
    [] field = "phone" -> PhoneValues
    [] field = "address" -> AddressValues
    [] field = "preferences" -> PreferencesValues
    [] field = "newsletter" -> BOOLEAN

\* steps a caller may hand to validateStep(step: number)
StepArgs == (FirstStep - 1)..(LastStep + 1)

NoInput == [field |-> "none", value |-> <<>>]

----------------------------------------------------------------------------
(* Controller specification: one handler per step, re-render after each *)

Commit(st) ==
  /\ formData' = st.formData
  /\ errors' = st.errors
  /\ currentStep' = st.currentStep
  /\ isSubmitting' = st.isSubmitting

Init ==
  /\ formData = InitialFormData
  /\ errors = EmptyErrors
  /\ currentStep = 1
  /\ isSubmitting = FALSE
  /\ pending = 0
  /\ last = [op |-> "init", ret |-> TRUE, field |-> "none",
            value |-> <<>>, step |-> 0]
  /\ input = NoInput
  /\ verdict = <<>>
  /\ UsersNotMounted

UpdateField(field, value) ==
  /\ Commit(updateField(State, State, field, value))
  /\ last' = [op |-> "updateField", ret |-> TRUE, field |-> field,
              value |-> value, step |-> 0]
  /\ UNCHANGED <<pending, input, verdict, usersVars>>

ValidateStep(step) ==
  LET v == validateStep(State, State, step)
  IN  /\ Commit(v.st)
      /\ last' = [op |-> "validateStep", ret |-> v.ret, field |-> "none",
                  value |-> <<>>, step |-> step]
      /\ UNCHANGED <<pending, input, verdict, usersVars>>

NextStep ==
  LET r == nextStep(State, State)
  IN  /\ Commit(r.st)
      /\ last' = [op |-> "nextStep", ret |-> r.ret, field |-> "none",
                  value |-> <<>>, step |-> currentStep]
      /\ UNCHANGED <<pending, input, verdict, usersVars>>

PrevStep ==
  /\ Commit(prevStep(State, State))
  /\ last' = [op |-> "prevStep", ret |-> TRUE, field |-> "none",
              value |-> <<>>, step |-> currentStep]
  /\ UNCHANGED <<pending, input, verdict, usersVars>>

SubmitForm ==
  LET r == submitForm(State, State)
  IN  /\ r.ret => pending < MaxPending
      /\ Commit(r.st)
      /\ pending' = IF r.ret THEN pending + 1 ELSE pending
      /\ last' = [op |-> "submitForm", ret |-> r.ret, field |-> "none",
                  value |-> <<>>, step |-> currentStep]
      /\ UNCHANGED <<input, verdict, usersVars>>

\* the 1500 ms timer of one submission fires and its continuation runs
SubmitResume ==
  /\ pending > 0
  /\ Commit(submitFormResume(State))
  /\ pending' = pending - 1
  /\ last' = [op |-> "submitResume", ret |-> TRUE, field |-> "none",
              value |-> <<>>, step |-> currentStep]
  /\ UNCHANGED <<input, verdict, usersVars>>

Next ==
  \/ \E field \in Fields : \E value \in ValuesOf(field) :
       UpdateField(field, value)
  \/ \E step \in StepArgs : ValidateStep(step)
  \/ NextStep
  \/ PrevStep
  \/ SubmitForm
  \/ SubmitResume

Spec == Init /\ [][Next]_vars

----------------------------------------------------------------------------
(* Surface specification: the controller as MultiStepForm drives it.  Only *)
(* the step that currentStep selects is rendered, with its own inputs and  *)
(* buttons; Step3 disables both of its buttons while isSubmitting.         *)

\* the step component that renders the input of a field
stepOfInput(field) ==
  CASE field \in {"name", "email"} -> 1
    [] field \in {"phone", "address"} -> 2
    [] field \in {"preferences", "newsletter"} -> 3

\* mutant: the inputs of every step are rendered at every step
SurfaceEdit_anyStep(field, value) == UpdateField(field, value)

\* onChange of an input of the rendered step
SurfaceEdit(field, value) ==
  /\ currentStep = stepOfInput(field)
  /\ UpdateField(field, value)

\* the Next button of Step1 and Step2
SurfaceNext ==
  /\ currentStep \in {1, 2}
  /\ NextStep

\* mutant: the Previous button of Step3 is not disabled while submitting
SurfacePrevious_enabled ==
  /\ currentStep \in {2, 3}
  /\ PrevStep

\* the Previous button of Step2, and of Step3 unless disabled
SurfacePrevious ==
  /\ \/ currentStep = 2
     \/ currentStep = 3 /\ ~isSubmitting
  /\ PrevStep

\* mutant: the Submit button is not disabled while submitting
SurfaceSubmit_enabled ==
  /\ currentStep = 3
  /\ SubmitForm

\* the Submit button of Step3, unless disabled
SurfaceSubmit ==
  /\ currentStep = 3
  /\ ~isSubmitting
  /\ SubmitForm

NextSurface ==
  \/ \E field \in Fields : \E value \in ValuesOf(field) :
       SurfaceEdit(field, value)
  \/ SurfaceNext
  \/ SurfacePrevious
  \/ SurfaceSubmit
  \/ SubmitResume

SpecSurface == Init /\ [][NextSurface]_vars

\* setTimeout(resolve, 1500): a timer that was set fires, once
FairSurface == SpecSurface /\ WF_vars(SubmitResume)

----------------------------------------------------------------------------
(* Rule specification: the schemas as pure functions.  Init draws one      *)
(* field, one value for it and the values of the other fields; CheckField  *)
(* runs validateStep for the step whose schema has the field.              *)

Alphabet == {"a", " ", "\t", "@", "."}
PhoneAlphabet == {"1", " "}

StringsOver(alphabet, n) == UNION {[1..k -> alphabet] : k \in 0..n}

RuleValuesOf(field) ==
  CASE field = "phone" -> StringsOver(PhoneAlphabet, MaxPhoneLen)
    [] field = "newsletter" -> BOOLEAN
    [] OTHER -> StringsOver(Alphabet, MaxLen)

ValidFormData ==
  [name |-> <<"A", "l">>,
   email |-> <<"a", "@", "b", ".", "c", "o", "m">>,
   phone |-> <<"0", "1", "2", "3", "4", "5", "6", "7", "8", "9">>,
   address |-> <<"1", " ", "E", "l", "m">>,
   preferences |-> <<"m", "a", "i", "l">>,
   newsletter |-> TRUE]

\* the step whose schema has the field as a key
schemaOf(field) ==
  CASE field \in {"name", "email"} -> 1
    [] field \in {"phone", "address"} -> 2
    [] field \in {"preferences", "newsletter"} -> 3

NoVerdict == [done |-> FALSE, ret |-> TRUE, errors |-> EmptyErrors]

InitRules ==
  /\ formData = InitialFormData
  /\ errors = EmptyErrors
  /\ currentStep = 1
  /\ isSubmitting = FALSE
  /\ pending = 0
  /\ last = [op |-> "init", ret |-> TRUE, field |-> "none",
            value |-> <<>>, step |-> 0]
  /\ \E field \in Fields, rest \in {InitialFormData, ValidFormData} :
       \E value \in RuleValuesOf(field) :
         input = [field |-> field, value |-> value, rest |-> rest]
  /\ verdict = NoVerdict
  /\ UsersNotMounted

CheckField ==
  /\ ~verdict.done
  /\ LET st == [formData |-> [input.rest EXCEPT ![input.field] = input.value],
                errors |-> EmptyErrors, currentStep |-> schemaOf(input.field),
                isSubmitting |-> FALSE]
         v == validateStep(st, st, schemaOf(input.field))
     IN  verdict' = [done |-> TRUE, ret |-> v.ret, errors |-> v.st.errors]
  /\ UNCHANGED <<formData, errors, currentStep, isSubmitting, pending, last,
                 input, usersVars>>

NextRules == CheckField

SpecRules == InitRules /\ [][NextRules]_vars

----------------------------------------------------------------------------
(* Pair specification: validateStep as a function of the state.  Init      *)
(* draws a step and two controller states that hold the same values in the *)
(* fields of that step's schema; ValidatePair runs validateStep(step) in   *)
(* both, and once more in the state the first run left.                    *)

FormDatas ==
  {[name |-> n, email |-> e, phone |-> p, address |-> a, preferences |-> q,
    newsletter |-> w] :
     n \in NameValues, e \in EmailValues, p \in PhoneValues,
     a \in AddressValues, q \in PreferencesValues, w \in BOOLEAN}

ErrorsValues ==
  {EmptyErrors,
   [name |-> "Name is required", phone |-> "Phone is required",
    preferences |-> "Please select a preference"]}

\* the keys of the schema of step
schemaKeys(step) == {f \in Fields : schemaOf(f) = step}

InitPair ==
  /\ formData = InitialFormData
  /\ errors = EmptyErrors
  /\ currentStep = 1
  /\ isSubmitting = FALSE
  /\ pending = 0
  /\ last = [op |-> "init", ret |-> TRUE, field |-> "none",
            value |-> <<>>, step |-> 0]
  /\ \E step \in FirstStep..LastStep, da \in FormDatas,
        db \in {InitialFormData, ValidFormData},
        ea \in ErrorsValues, eb \in ErrorsValues,
        kb \in FirstStep..LastStep, sb \in BOOLEAN :
       input =
         [step |-> step,
          a |-> [formData |-> da, errors |-> ea, currentStep |-> step,
                 isSubmitting |-> FALSE],
          b |-> [formData |-> [f \in Fields |->
                                 IF f \in schemaKeys(step) THEN da[f]
                                 ELSE db[f]],
                 errors |-> eb, currentStep |-> kb, isSubmitting |-> sb]]
  /\ verdict = [done |-> FALSE]
  /\ UsersNotMounted

ValidatePair ==
  /\ ~verdict.done
  /\ LET va == validateStep(input.a, input.a, input.step)
         vb == validateStep(input.b, input.b, input.step)
         again == validateStep(va.st, va.st, input.step)
     IN  verdict' = [done |-> TRUE,
                     a |-> [ret |-> va.ret, errors |-> va.st.errors],
                     b |-> [ret |-> vb.ret, errors |-> vb.st.errors],
                     again |-> [ret |-> again.ret,
                                errors |-> again.st.errors]]
  /\ UNCHANGED <<formData, errors, currentStep, isSubmitting, pending, last,
                 input, usersVars>>

NextPair == ValidatePair

SpecPair == InitPair /\ [][NextPair]_vars

----------------------------------------------------------------------------
(* Users screen (src/src/task1/components/githubUsers.tsx).  The hook      *)
(* useFetch is not among the sources: it is modelled from the              *)
(* specification's Remote List Fetcher, as a RemoteListState record        *)
(* [status, items, failure] and the {data, loading, error} the screen      *)
(* reads from it.                                                          *)

useFetchInitial == [status |-> "Pending", items |-> None, failure |-> None]

\* mutant: the effect has no dependency list and runs after every render
useFetchIssues_everyRender(renderNo) == TRUE

\* the outbound call is issued after the mount render only (URL unchanged)
useFetchIssues(renderNo) == renderNo = 1

useFetchResolved(r, items) ==
  [status |-> "Ready", items |-> Some(items), failure |-> None]

\* mutant: a failure is recorded without its message
useFetchRejected_noMessage(r, message) ==
  [status |-> "Failed", items |-> None, failure |-> None]

useFetchRejected(r, message) ==
  [status |-> "Failed", items |-> None, failure |-> Some(message)]

\* what useFetch returns to the screen
useFetch(r) ==
  [data |-> r.items, loading |-> r.status = "Pending", error |-> r.failure]

lowerChar(ch) ==
  CASE ch = "A" -> "a"
    [] ch = "B" -> "b"
    [] ch = "L" -> "l"
    [] OTHER -> ch

\* String.prototype.toLowerCase
toLowerCase(str) == [i \in 1..Len(str) |-> lowerChar(str[i])]

\* String.prototype.includes
includes(str, part) ==
  \E o \in 0..(Len(str) - Len(part)) :
    \A j \in 1..Len(part) : str[o + j] = part[j]

\* mutant: the search term is compared as typed
filteredUsers_termAsTyped(data, term) ==
  SelectSeq(data, LAMBDA user : includes(toLowerCase(user.login), term))

\* data.filter(user => user.login.toLowerCase().includes(
\*   searchTerm.toLowerCase()))
filteredUsers(data, term) ==
  SelectSeq(data,
            LAMBDA user : includes(toLowerCase(user.login), toLowerCase(term)))

\* mutant: the early return for loading is missing
GitHubUsers_noLoadingReturn(h, term) ==
  IF h.error # None
    THEN [shown |-> {"error"}, total |-> 0, list |-> <<>>]
  ELSE IF h.data = None
    THEN [shown |-> {"no-data"}, total |-> 0, list |-> <<>>]
  ELSE LET list == filteredUsers(h.data[1], term)
       IN  [shown |-> {"github-users", "total", "search-input",
                       IF Len(list) = 0 THEN "no-results" ELSE "users-list"},
            total |-> Len(h.data[1]), list |-> list]

\* what GitHubUsers renders: the class names of the elements returned, the
\* total shown and the cards listed
GitHubUsers(h, term) ==
  IF h.loading
    THEN [shown |-> {"loading"}, total |-> 0, list |-> <<>>]
  ELSE IF h.error # None
    THEN [shown |-> {"error"}, total |-> 0, list |-> <<>>]
  ELSE IF h.data = None
    THEN [shown |-> {"no-data"}, total |-> 0, list |-> <<>>]
  ELSE LET list == filteredUsers(h.data[1], term)
       IN  [shown |-> {"github-users", "total", "search-input",
                       IF Len(list) = 0 THEN "no-results" ELSE "users-list"},
            total |-> Len(h.data[1]), list |-> list]

alice == [id |-> 1, login |-> <<"a", "l", "i", "c", "e">>]
bob == [id |-> 2, login |-> <<"b", "o", "b">>]

Users == {alice, bob, [id |-> 3, login |-> <<"A", "l">>],
          [id |-> 4, login |-> <<"B">>]}

ItemLists == UNION {[1..k -> Users] : k \in 0..MaxItems}

QueryAlphabet == {"a", "A", "l", "b"}

Queries ==
  StringsOver(QueryAlphabet, MaxQueryLen)
    \cup {<<"a", "l", "i", "c", "e">>, <<"c", "h", "a", "r", "l", "i", "e">>}

\* what the endpoint will answer: a list, or a failure with its message
Responses ==
  {[ok |-> TRUE, body |-> items, message |-> ""] : items \in ItemLists}
    \cup {[ok |-> FALSE, body |-> <<>>, message |-> msg] :
            msg \in {"Failed to fetch", "HTTP error! status: 403"}}

\* the render that follows a state change, and the call it may issue
Rerender(answered) ==
  /\ renders < MaxRenders
  /\ renders' = renders + 1
  /\ calls' = calls + (IF useFetchIssues(renders + 1) THEN 1 ELSE 0)
  /\ inflight' = inflight - answered
                   + (IF useFetchIssues(renders + 1) THEN 1 ELSE 0)

InitUsers ==
  /\ formData = InitialFormData
  /\ errors = EmptyErrors
  /\ currentStep = 1
  /\ isSubmitting = FALSE
  /\ pending = 0
  /\ last = [op |-> "init", ret |-> TRUE, field |-> "none",
            value |-> <<>>, step |-> 0]
  /\ input \in Responses
  /\ verdict = <<>>
  /\ remote = useFetchInitial
  /\ searchTerm = <<>>
  /\ renders = 1
  /\ calls = (IF useFetchIssues(1) THEN 1 ELSE 0)
  /\ inflight = (IF useFetchIssues(1) THEN 1 ELSE 0)

FetchResolve ==
  /\ inflight > 0
  /\ input.ok
  /\ remote' = useFetchResolved(remote, input.body)
  /\ Rerender(1)
  /\ UNCHANGED <<formData, errors, currentStep, isSubmitting, pending, last,
                 input, verdict, searchTerm>>

FetchReject ==
  /\ inflight > 0
  /\ ~input.ok
  /\ remote' = useFetchRejected(remote, input.message)
  /\ Rerender(1)
  /\ UNCHANGED <<formData, errors, currentStep, isSubmitting, pending, last,
                 input, verdict, searchTerm>>

\* onChange of the search input, which is rendered with the list only
ChangeSearch(term) ==
  /\ "search-input" \in GitHubUsers(useFetch(remote), searchTerm).shown
  /\ searchTerm' = term
  /\ Rerender(0)
  /\ UNCHANGED <<formData, errors, currentStep, isSubmitting, pending, last,
                 input, verdict, remote>>

NextUsers ==
  \/ FetchResolve
  \/ FetchReject
  \/ \E term \in Queries : ChangeSearch(term)

SpecUsers == InitUsers /\ [][NextUsers]_vars

----------------------------------------------------------------------------
(* Button (src/unnamed/part_004).  The sources hold two Button components: *)
(* one with a loading prop, which disables the element when disabled or    *)
(* loading is set, and one without, which passes disabled alone.  Which of *)
(* the two is the Button of the build is not known, so Init draws it.  A   *)
(* disabled button element dispatches no click.                            *)

\* the attributes of the button element, component with the loading prop
ButtonWithLoading(props) ==
  [disabled |-> props.disabled \/ props.loading, ariaBusy |-> props.loading]

\* the attributes of the button element, component without the loading prop
ButtonWithoutLoading(props) ==
  [disabled |-> props.disabled, ariaBusy |-> FALSE]

Button(props) ==
  IF props.component = "with loading" THEN ButtonWithLoading(props)
  ELSE ButtonWithoutLoading(props)

\* calls of the onClick prop after one more click on the element
onClickCalls(element, count) ==
  IF element.disabled THEN count ELSE count + 1

InitButton ==
  /\ formData = InitialFormData
  /\ errors = EmptyErrors
  /\ currentStep = 1
  /\ isSubmitting = FALSE
  /\ pending = 0
  /\ last = [op |-> "init", ret |-> TRUE, field |-> "none",
            value |-> <<>>, step |-> 0]
  /\ \E component \in {"with loading", "without loading"},
        disabled \in BOOLEAN, loading \in BOOLEAN :
       input = [component |-> component, disabled |-> disabled,
                loading |-> loading]
  /\ verdict = [clicks |-> 0, calls |-> 0]
  /\ UsersNotMounted

\* the parent renders the button with other props
SetProps(disabled, loading) ==
  /\ input' = [input EXCEPT !.disabled = disabled, !.loading = loading]
  /\ UNCHANGED <<formData, errors, currentStep, isSubmitting, pending, last,
                 verdict, usersVars>>

Click ==
  /\ verdict.clicks < MaxClicks
  /\ verdict' = [clicks |-> verdict.clicks + 1,
                 calls |-> onClickCalls(Button(input), verdict.calls)]
  /\ UNCHANGED <<formData, errors, currentStep, isSubmitting, pending, last,
                 input, usersVars>>

NextButton ==
  \/ \E disabled \in BOOLEAN, loading \in BOOLEAN : SetProps(disabled, loading)
  \/ Click

SpecButton == InitButton /\ [][NextButton]_vars

----------------------------------------------------------------------------
(* useForm: Init draws where the hook is called, inside a FormProvider     *)
(* holding some state or outside any; CallUseForm calls it.                *)

\* useContext(FormContext): the value of the nearest provider, else the
\* default the context was created with (undefined)
useContext(inside, value) == IF inside THEN Some(value) ELSE None

\* mutant: the context is returned unchecked
useForm_unchecked(context) ==
  [thrown |-> FALSE, message |-> "", returned |-> context]

\* useForm: [thrown, message, returned]
useForm(context) ==
  IF context = None
    THEN [thrown |-> TRUE,
          message |-> "useForm must be used within FormProvider",
          returned |-> None]
    ELSE [thrown |-> FALSE, message |-> "", returned |-> context]

InitAccess ==
  /\ formData = InitialFormData
  /\ errors = EmptyErrors
  /\ currentStep = 1
  /\ isSubmitting = FALSE
  /\ pending = 0
  /\ last = [op |-> "init", ret |-> TRUE, field |-> "none",
            value |-> <<>>, step |-> 0]
  /\ \E inside \in BOOLEAN, data \in FormDatas, e \in ErrorsValues,
        k \in FirstStep..LastStep, b \in BOOLEAN :
       input = [inside |-> inside,
                value |-> [formData |-> data, errors |-> e,
                           currentStep |-> k, isSubmitting |-> b]]
  /\ verdict = [done |-> FALSE]
  /\ UsersNotMounted

CallUseForm ==
  /\ ~verdict.done
  /\ LET r == useForm(useContext(input.inside, input.value))
     IN  verdict' = [done |-> TRUE, thrown |-> r.thrown,
                     message |-> r.message, returned |-> r.returned]
  /\ UNCHANGED <<formData, errors, currentStep, isSubmitting, pending, last,
                 input, usersVars>>

NextAccess == CallUseForm

SpecAccess == InitAccess /\ [][NextAccess]_vars

----------------------------------------------------------------------------
(* Recovery specification: the handlers of the controller, edits going to  *)
(* the inputs of the rendered step, with a record of the last failed       *)
(* nextStep or submitForm: the step it failed at, and whether the attempt  *)
(* that succeeded after it was made at that step.                          *)

NoFailure == [failedAt |-> 0, recovered |-> FALSE]

InitRecover ==
  /\ formData = InitialFormData
  /\ errors = EmptyErrors
  /\ currentStep = 1
  /\ isSubmitting = FALSE
  /\ pending = 0
  /\ last = [op |-> "init", ret |-> TRUE, field |-> "none",
            value |-> <<>>, step |-> 0]
  /\ input = NoInput
  /\ verdict = NoFailure
  /\ UsersNotMounted

\* the record after a nextStep or submitForm that returned ret at step
afterAttempt(record, ret, step) ==
  IF ret
    THEN [failedAt |-> 0, recovered |-> record.failedAt = step]
    ELSE [failedAt |-> step, recovered |-> FALSE]

RecoverEdit(field, value) ==
  /\ currentStep = stepOfInput(field)
  /\ Commit(updateField(State, State, field, value))
  /\ last' = [op |-> "updateField", ret |-> TRUE, field |-> field,
              value |-> value, step |-> 0]
  /\ UNCHANGED <<pending, input, verdict, usersVars>>

RecoverNext ==
  LET r == nextStep(State, State)
  IN  /\ Commit(r.st)
      /\ last' = [op |-> "nextStep", ret |-> r.ret, field |-> "none",
                  value |-> <<>>, step |-> currentStep]
      /\ verdict' = afterAttempt(verdict, r.ret, currentStep)
      /\ UNCHANGED <<pending, input, usersVars>>

RecoverPrev ==
  /\ Commit(prevStep(State, State))
  /\ last' = [op |-> "prevStep", ret |-> TRUE, field |-> "none",
              value |-> <<>>, step |-> currentStep]
  /\ UNCHANGED <<pending, input, verdict, usersVars>>

RecoverSubmit ==
  LET r == submitForm(State, State)
  IN  /\ r.ret => pending < MaxPending
      /\ Commit(r.st)
      /\ pending' = IF r.ret THEN pending + 1 ELSE pending
      /\ last' = [op |-> "submitForm", ret |-> r.ret, field |-> "none",
                  value |-> <<>>, step |-> currentStep]
      /\ verdict' = afterAttempt(verdict, r.ret, currentStep)
      /\ UNCHANGED <<input, usersVars>>

RecoverResume ==
  /\ pending > 0
  /\ Commit(submitFormResume(State))
  /\ pending' = pending - 1
  /\ last' = [op |-> "submitResume", ret |-> TRUE, field |-> "none",
              value |-> <<>>, step |-> currentStep]
  /\ verdict' = NoFailure
  /\ UNCHANGED <<input, usersVars>>

NextRecover ==
  \/ \E field \in Fields : \E value \in ValuesOf(field) :
       RecoverEdit(field, value)
  \/ RecoverNext
  \/ RecoverPrev
  \/ RecoverSubmit
  \/ RecoverResume

SpecRecover == InitRecover /\ [][NextRecover]_vars

----------------------------------------------------------------------------
(* Sign-up form (src/unnamed/part_002).  Its state is the record           *)
(* [formData, errors]; errors maps a key to Some(message), or to None      *)
(* after handleChange has set the key to undefined.  The specification     *)
(* keeps that record, with the handler that ran last, in verdict.          *)

SignUpFields == {"name", "email", "password", "confirmPassword"}

EmptySignUp ==
  [name |-> <<>>, email |-> <<>>, password |-> <<>>, confirmPassword |-> <<>>]

NoSignUpErrors == [f \in {} |-> None]

\* the message validateForm assigns to newErrors[field], "" when it assigns
\* none
newErrorOf(data, field) ==
  CASE field = "name" ->
         IF trim(data.name) = <<>> THEN "Name is required"
         ELSE IF Len(trim(data.name)) < SignUpNameMinLength
           THEN "Name must be at least 2 characters"
         ELSE ""
    [] field = "email" ->
         IF trim(data.email) = <<>> THEN "Email is required"
         ELSE IF ~emailRegexTest(data.email)
           THEN "Please enter a valid email address"
         ELSE ""
    [] field = "password" ->
         IF data.password = <<>> THEN "Password is required"
         ELSE IF Len(data.password) < PasswordMinLength
           THEN "Password must be at least 6 characters"
         ELSE ""
    [] field = "confirmPassword" ->
         IF data.confirmPassword = <<>> THEN "Please confirm your password"
         ELSE IF data.password # data.confirmPassword
           THEN "Passwords do not match"
         ELSE ""

\* mutant: the comparison of the two passwords is missing
validateForm_noMatchCheck(c, s) ==
  LET message(f) ==
        IF f = "confirmPassword" /\ c.formData.confirmPassword # <<>> THEN ""
        ELSE newErrorOf(c.formData, f)
      newErrors ==
        [f \in {g \in SignUpFields : message(g) # ""} |-> Some(message(f))]
  IN  [ret |-> DOMAIN newErrors = {}, st |-> [s EXCEPT !.errors = newErrors]]

\* validateForm: [ret, st] - Object.keys(newErrors).length === 0 and the
\* state after setErrors(newErrors)
validateForm(c, s) ==
  LET newErrors ==
        [f \in {g \in SignUpFields : newErrorOf(c.formData, g) # ""} |->
           Some(newErrorOf(c.formData, f))]
  IN  [ret |-> DOMAIN newErrors = {}, st |-> [s EXCEPT !.errors = newErrors]]

\* handleSubmit: [ret, st] - ret says the alert was shown
handleSubmit(c, s) ==
  LET v == validateForm(c, s)
  IN  IF v.ret
        THEN [ret |-> TRUE,
              st |-> [v.st EXCEPT !.formData = EmptySignUp,
                                  !.errors = NoSignUpErrors]]
        ELSE [ret |-> FALSE, st |-> v.st]

handleReset(s) ==
  [s EXCEPT !.formData = EmptySignUp, !.errors = NoSignUpErrors]

\* errors[field] is truthy
hasError(e, field) == field \in DOMAIN e /\ e[field] # None

\* handleChange(field) applied to an event whose target holds value
handleChange(c, s, field, value) ==
  [s EXCEPT !.formData = [@ EXCEPT ![field] = value],
            !.errors = IF hasError(c.errors, field)
                         THEN [k \in DOMAIN @ \cup {field} |->
                                 IF k = field THEN None ELSE @[k]]
                       ELSE @]

Passwords ==
  {<<>>, <<"p", "w", "1", "2", "3">>, <<"p", "w", "1", "2", "3", "4">>,
   <<"q", "w", "1", "2", "3", "4">>}

SignUpValuesOf(field) ==
  CASE field = "name" -> {<<>>, <<" ">>, <<"A">>, <<"A", "l">>}
    [] field = "email" -> {<<>>, <<"x">>, <<"a", "@", "b", ".", "c">>}
    [] field = "password" -> Passwords
    [] field = "confirmPassword" -> Passwords

SignUpState == [formData |-> verdict.formData, errors |-> verdict.errors]

SignUpCommit(st, op, ret, field) ==
  verdict' = [formData |-> st.formData, errors |-> st.errors, op |-> op,
              ret |-> ret, field |-> field]

InitSignUp ==
  /\ formData = InitialFormData
  /\ errors = EmptyErrors
  /\ currentStep = 1
  /\ isSubmitting = FALSE
  /\ pending = 0
  /\ last = [op |-> "init", ret |-> TRUE, field |-> "none",
            value |-> <<>>, step |-> 0]
  /\ input = NoInput
  /\ verdict = [formData |-> EmptySignUp, errors |-> NoSignUpErrors,
                op |-> "init", ret |-> TRUE, field |-> "none"]
  /\ UsersNotMounted

HandleChange(field, value) ==
  /\ SignUpCommit(handleChange(SignUpState, SignUpState, field, value),
                  "handleChange", TRUE, field)
  /\ UNCHANGED <<formData, errors, currentStep, isSubmitting, pending, last,
                 input, usersVars>>

HandleSubmit ==
  /\ LET r == handleSubmit(SignUpState, SignUpState)
     IN  SignUpCommit(r.st, "handleSubmit", r.ret, "none")
  /\ UNCHANGED <<formData, errors, currentStep, isSubmitting, pending, last,
                 input, usersVars>>

HandleReset ==
  /\ SignUpCommit(handleReset(SignUpState), "handleReset", TRUE, "none")
  /\ UNCHANGED <<formData, errors, currentStep, isSubmitting, pending, last,
                 input, usersVars>>

NextSignUp ==
  \/ \E field \in SignUpFields : \E value \in SignUpValuesOf(field) :
       HandleChange(field, value)
  \/ HandleSubmit
  \/ HandleReset

SpecSignUp == InitSignUp /\ [][NextSignUp]_vars

----------------------------------------------------------------------------
(* Rendering specification.  formData, errors, currentStep, isSubmitting   *)
(* are React's state cells with every dispatched update applied;           *)
(* input.view is the state of the last render, which is what the screen    *)
(* shows and what every handler closes over; input.mounted says the        *)
(* provider is still mounted.  verdict holds the timers that were set,     *)
(* each with the formData its continuation closed over, and the position   *)
(* of the continuation that runs after the await.  One step of the         *)
(* continuation is one statement; no handler runs while it is running.     *)

Idle ==
  [timers |-> <<>>, pc |-> 0, job |-> None, logged |-> None,
   effect |-> "none"]

\* the statements of submitForm after the await, in order
continuation ==
  <<"console.log", "alert", "setIsSubmitting", "setFormData",
    "setCurrentStep", "setErrors">>

\* one statement of the continuation applied to the cells; a setter of an
\* unmounted component does nothing
setState(mounted, s, statement) ==
  IF ~mounted THEN s
  ELSE CASE statement = "setIsSubmitting" -> [s EXCEPT !.isSubmitting = FALSE]
         [] statement = "setFormData" -> [s EXCEPT !.formData = InitialFormData]
         [] statement = "setCurrentStep" -> [s EXCEPT !.currentStep = FirstStep]
         [] statement = "setErrors" -> [s EXCEPT !.errors = EmptyErrors]
         [] OTHER -> s

\* mutant: the fields are read when the continuation runs
logPayload_current(job, s) == s.formData

\* console.log('Form submitted:', formData): formData of the closure
logPayload(job, s) == job.payload

\* mutant: every setter called after the await renders at once
flushAllowed_afterEachSetter(pc) == TRUE

\* updates made by one task are rendered together, when the task has ended
flushAllowed(pc) == pc = 0

InitAsync ==
  /\ formData = InitialFormData
  /\ errors = EmptyErrors
  /\ currentStep = 1
  /\ isSubmitting = FALSE
  /\ pending = 0
  /\ last = [op |-> "init", ret |-> TRUE, field |-> "none",
            value |-> <<>>, step |-> 0]
  /\ input = [view |-> [formData |-> InitialFormData, errors |-> EmptyErrors,
                        currentStep |-> 1, isSubmitting |-> FALSE],
              mounted |-> TRUE]
  /\ verdict = Idle
  /\ UsersNotMounted

\* a handler can be called: the provider is mounted and no task is running
Callable == input.mounted /\ verdict.pc = 0

\* onChange of an input of the rendered step
DispatchEdit(field, value) ==
  /\ Callable
  /\ input.view.currentStep = stepOfInput(field)
  /\ Commit(updateField(input.view, State, field, value))
  /\ last' = [op |-> "updateField", ret |-> TRUE, field |-> field,
              value |-> value, step |-> 0]
  /\ UNCHANGED <<pending, input, verdict, usersVars>>

DispatchNext ==
  /\ Callable
  /\ input.view.currentStep \in {1, 2}
  /\ LET r == nextStep(input.view, State)
     IN  /\ Commit(r.st)
         /\ last' = [op |-> "nextStep", ret |-> r.ret, field |-> "none",
                     value |-> <<>>, step |-> input.view.currentStep]
  /\ UNCHANGED <<pending, input, verdict, usersVars>>

DispatchPrevious ==
  /\ Callable
  /\ \/ input.view.currentStep = 2
     \/ input.view.currentStep = 3 /\ ~input.view.isSubmitting
  /\ Commit(prevStep(input.view, State))
  /\ last' = [op |-> "prevStep", ret |-> TRUE, field |-> "none",
              value |-> <<>>, step |-> input.view.currentStep]
  /\ UNCHANGED <<pending, input, verdict, usersVars>>

DispatchSubmit ==
  /\ Callable
  /\ input.view.currentStep = 3
  /\ ~input.view.isSubmitting
  /\ LET r == submitForm(input.view, State)
     IN  /\ r.ret => pending < MaxPending
         /\ Commit(r.st)
         /\ pending' = IF r.ret THEN pending + 1 ELSE pending
         /\ verdict' =
              IF r.ret
                THEN [verdict EXCEPT !.timers =
                        Append(@, [payload |-> input.view.formData,
                                   atCall |-> formData])]
              ELSE verdict
         /\ last' = [op |-> "submitForm", ret |-> r.ret, field |-> "none",
                     value |-> <<>>, step |-> input.view.currentStep]
  /\ UNCHANGED <<input, usersVars>>

\* the 1500 ms timer set first fires: its continuation starts
TimerFires ==
  /\ verdict.pc = 0
  /\ verdict.timers # <<>>
  /\ verdict' = [verdict EXCEPT !.timers = Tail(@), !.pc = 1,
                                !.job = Some(Head(verdict.timers))]
  /\ pending' = pending - 1
  /\ last' = [op |-> "timer", ret |-> TRUE, field |-> "none",
              value |-> <<>>, step |-> currentStep]
  /\ UNCHANGED <<formData, errors, currentStep, isSubmitting, input,
                 usersVars>>

\* the next statement of the running continuation
ContinuationStep ==
  /\ verdict.pc \in 1..Len(continuation)
  /\ LET statement == continuation[verdict.pc]
         ends == verdict.pc = Len(continuation)
     IN  /\ Commit(setState(input.mounted, State, statement))
         /\ verdict' =
              [verdict EXCEPT
                 !.pc = IF ends THEN 0 ELSE @ + 1,
                 !.job = IF ends THEN None ELSE @,
                 !.logged = IF statement = "console.log"
                              THEN Some(logPayload(verdict.job[1], State))
                            ELSE IF ends THEN None ELSE @,
                 !.effect = IF statement \in {"console.log", "alert"}
                              THEN statement ELSE "none"]
         /\ last' = [op |-> statement, ret |-> TRUE, field |-> "none",
                     value |-> <<>>, step |-> currentStep]
  /\ UNCHANGED <<pending, input, usersVars>>

\* React renders the provider with the current cells
Flush ==
  /\ input.mounted
  /\ flushAllowed(verdict.pc)
  /\ input.view # State
  /\ input' = [input EXCEPT !.view = State]
  /\ last' = [op |-> "render", ret |-> TRUE, field |-> "none",
              value |-> <<last.op>>, step |-> 0]
  /\ UNCHANGED <<formData, errors, currentStep, isSubmitting, pending,
                 verdict, usersVars>>

\* the provider is unmounted: its inputs and buttons are gone
Unmount ==
  /\ Callable
  /\ input' = [input EXCEPT !.mounted = FALSE]
  /\ last' = [op |-> "unmount", ret |-> TRUE, field |-> "none",
              value |-> <<>>, step |-> currentStep]
  /\ UNCHANGED <<formData, errors, currentStep, isSubmitting, pending,
                 verdict, usersVars>>

\* every update has been rendered
Rendered == input.view = State

\* one handler per DOM event: React renders before the next event or timer
NextAsync ==
  \/ \E field \in Fields : \E value \in ValuesOf(field) :
       Rendered /\ DispatchEdit(field, value)
  \/ Rendered /\ DispatchNext
  \/ Rendered /\ DispatchPrevious
  \/ Rendered /\ DispatchSubmit
  \/ Rendered /\ TimerFires
  \/ Rendered /\ Unmount
  \/ ContinuationStep
  \/ Flush

SpecAsync == InitAsync /\ [][NextAsync]_vars

\* within one event a handler may also be called after updateField calls
\* that React has not rendered yet
Batched == Rendered \/ last.op = "updateField"

NextBatch ==
  \/ \E field \in Fields : \E value \in ValuesOf(field) :
       Batched /\ DispatchEdit(field, value)
  \/ Batched /\ DispatchNext
  \/ Batched /\ DispatchPrevious
  \/ Batched /\ DispatchSubmit
  \/ Rendered /\ TimerFires
  \/ ContinuationStep
  \/ Flush

SpecBatch == InitAsync /\ [][NextBatch]_vars

----------------------------------------------------------------------------
(* The rule table of the specification, computed without the schemas *)

\* characters left once leading and trailing white space is dropped: the
\* positions with a non-space character at or before and at or after them
TrimmedLength(val) ==
  Cardinality({k \in 1..Len(val) :
                 /\ \E a \in 1..k : val[a] \notin WhiteSpace
                 /\ \E b \in k..Len(val) : val[b] \notin WhiteSpace})

\* local@domain.tld: no white space, exactly one "@", not in front, and a "."
\* after it with at least one character on each side
EmailShape(val) ==
  LET ats == {k \in 1..Len(val) : val[k] = "@"}
  IN  /\ \A k \in 1..Len(val) : val[k] \notin WhiteSpace
      /\ Cardinality(ats) = 1
      /\ \A at \in ats :
           /\ at > 1
           /\ \E dot \in (at + 2)..(Len(val) - 1) : val[dot] = "."

\* the message the table gives for a value, "" when the value is accepted
TableMessage(field, val) ==
  CASE field = "name" ->
         IF val = <<>> THEN "Name is required"
         ELSE IF TrimmedLength(val) < 2
           THEN "Name must be at least 2 characters" ELSE ""
    [] field = "email" ->
         IF val = <<>> THEN "Email is required"
         ELSE IF ~EmailShape(val) THEN "Invalid email address" ELSE ""
    [] field = "phone" ->
         IF val = <<>> THEN "Phone is required"
         ELSE IF TrimmedLength(val) < 10
           THEN "Phone must be at least 10 characters" ELSE ""
    [] field = "address" ->
         IF val = <<>> THEN "Address is required"
         ELSE IF TrimmedLength(val) < 5
           THEN "Address must be at least 5 characters" ELSE ""
    [] field = "preferences" ->
         IF val = <<>> THEN "Please select a preference" ELSE ""
    [] field = "newsletter" -> ""

OwnedBy(step) ==
  CASE step = 1 -> {"name", "email"}
    [] step = 2 -> {"phone", "address"}
    [] step = 3 -> {"preferences", "newsletter"}
    [] OTHER -> {}

TableFailing(step, data) ==
  {f \in OwnedBy(step) : TableMessage(f, data[f]) # ""}

TableErrors(step, data) ==
  [f \in TableFailing(step, data) |-> TableMessage(f, data[f])]

----------------------------------------------------------------------------
(* Claims *)

\* C1: in every reachable state of the controller, whatever handlers and
\* submission completions have run, step is an integer from 1 to 3.
C1_StepInBounds == currentStep \in 1..3

\* a passing nextStep at the last step has run and the step is still 3
C1_Witness ==
  /\ last.op = "nextStep"
  /\ last.ret
  /\ last.step = 3
  /\ currentStep = 3

\* C2: a nextStep run while the current step's fields fail the rule table
\* leaves step and fields unchanged and sets errors to the (non-empty) set of
\* the current step's failures.
C2_NextStepFails ==
  [][(last'.op = "nextStep" /\ TableFailing(currentStep, formData) # {})
       => /\ currentStep' = currentStep
          /\ formData' = formData
          /\ errors' # EmptyErrors
          /\ errors' = TableErrors(currentStep, formData)]_vars

\* Scenario B: nextStep at step 1 with name = "" and email = "x"
C2_Witness ==
  /\ last.op = "nextStep"
  /\ currentStep = 1
  /\ formData.name = <<>>
  /\ formData.email = <<"x">>
  /\ errors = [name |-> "Name is required", email |-> "Invalid email address"]

\* C3: a nextStep run while the current step's fields pass the rule table
\* sets step to min(step + 1, 3), empties errors, leaves fields unchanged and
\* starts no submission; a nextStep changes step only in that case.
C3_NextStepPasses ==
  [][last'.op = "nextStep"
       => /\ TableFailing(currentStep, formData) = {}
             => /\ currentStep' = (IF currentStep < 3 THEN currentStep + 1
                                   ELSE 3)
                /\ errors' = EmptyErrors
                /\ formData' = formData
                /\ isSubmitting' = isSubmitting
                /\ pending' = pending
          /\ currentStep' # currentStep
             => TableFailing(currentStep, formData) = {}]_vars

\* Scenario C: nextStep at step 1 with name = "Al" and email = "a@b.com"
C3_Witness ==
  /\ last.op = "nextStep"
  /\ last.step = 1
  /\ formData.name = <<"A", "l">>
  /\ formData.email = <<"a", "@", "b", ".", "c", "o", "m">>
  /\ currentStep = 2
  /\ errors = EmptyErrors

\* C4: prevStep, from any state and whatever the fields hold, sets step to
\* max(step - 1, 1), empties errors and leaves fields, submitting and the
\* submissions in flight unchanged.
C4_PrevStep ==
  [][last'.op = "prevStep"
       => /\ currentStep' = (IF currentStep > 1 THEN currentStep - 1 ELSE 1)
          /\ errors' = EmptyErrors
          /\ formData' = formData
          /\ isSubmitting' = isSubmitting
          /\ pending' = pending]_vars

\* prevStep has moved back from step 2 although the fields of step 2 fail
C4_Witness ==
  /\ last.op = "prevStep"
  /\ last.step = 2
  /\ currentStep = 1
  /\ TableFailing(2, formData) = {"phone", "address"}
  /\ errors = EmptyErrors

\* C5: updateField(name, value), in any state, sets fields[name] to value
\* (valid or not), removes errors[name] if present, changes no other field,
\* removes or adds no other error and leaves step and submitting unchanged.
C5_UpdateField ==
  [][last'.op = "updateField"
       => /\ formData'[last'.field] = last'.value
          /\ \A g \in Fields \ {last'.field} : formData'[g] = formData[g]
          /\ DOMAIN errors' = DOMAIN errors \ {last'.field}
          /\ \A g \in DOMAIN errors' : errors'[g] = errors[g]
          /\ currentStep' = currentStep
          /\ isSubmitting' = isSubmitting
          /\ pending' = pending]_vars

\* name was edited to a value that is still too short: its error is gone,
\* the error of email is still there
C5_Witness ==
  /\ last.op = "updateField"
  /\ last.field = "name"
  /\ formData.name = <<"A">>
  /\ errors = [email |-> "Invalid email address"]

\* C6: validateStep(s), s in 1..3, returns true iff no field owned by s
\* fails the rule table, and replaces errors wholesale: afterwards the keys
\* of errors are exactly the failing fields owned by s (all of them, not
\* only the first), whatever errors held before; fields, step and
\* submitting are unchanged.
C6_ValidateStep ==
  [][(last'.op = "validateStep" /\ last'.step \in 1..3)
       => /\ last'.ret = (TableFailing(last'.step, formData) = {})
          /\ DOMAIN errors' = TableFailing(last'.step, formData)
          /\ formData' = formData
          /\ currentStep' = currentStep
          /\ isSubmitting' = isSubmitting]_vars

\* validateStep(2) has run at step 1: both fields of step 2 are reported and
\* no error of step 1 is left, although name and email still fail
C6_Witness ==
  /\ last.op = "validateStep"
  /\ last.step = 2
  /\ ~last.ret
  /\ currentStep = 1
  /\ TableFailing(1, formData) = {"name", "email"}
  /\ DOMAIN errors = {"phone", "address"}

\* C7: a field failing both of its rules is reported with the first rule's
\* message: an empty name, email, phone or address gives "... is required";
\* a non-empty value failing the second rule gives the second rule's message.
C7_FirstRuleWins ==
  (verdict.done /\ input.field \in {"name", "email", "phone", "address"})
    => /\ input.value = <<>>
          => /\ input.field \in DOMAIN verdict.errors
             /\ verdict.errors[input.field] =
                  (CASE input.field = "name" -> "Name is required"
                     [] input.field = "email" -> "Email is required"
                     [] input.field = "phone" -> "Phone is required"
                     [] input.field = "address" -> "Address is required")
       /\ (input.value # <<>> /\ TableMessage(input.field, input.value) # "")
          => /\ input.field \in DOMAIN verdict.errors
             /\ verdict.errors[input.field] =
                  (CASE input.field = "name" ->
                          "Name must be at least 2 characters"
                     [] input.field = "email" -> "Invalid email address"
                     [] input.field = "phone" ->
                          "Phone must be at least 10 characters"
                     [] input.field = "address" ->
                          "Address must be at least 5 characters")

\* the empty address, which fails both rules, was checked
C7_Witness ==
  /\ verdict.done
  /\ input.field = "address"
  /\ input.value = <<>>
  /\ verdict.errors = [address |-> "Address is required"]

\* C8: validation accepts a value exactly when the rule table does, for every
\* field and every string of the bounded set (white-space-only and padded
\* strings included), and accepts every boolean for newsletter.
C8_AcceptsPerTable ==
  verdict.done
    => /\ (input.field \notin DOMAIN verdict.errors)
            <=> (TableMessage(input.field, input.value) = "")
       /\ input.field = "newsletter" => input.field \notin DOMAIN verdict.errors

\* a name of two characters, one of them padding, was checked and rejected
C8_Witness ==
  /\ verdict.done
  /\ input.field = "name"
  /\ input.value = <<" ", "a">>
  /\ "name" \in DOMAIN verdict.errors

\* C9: validateStep(s) depends only on the fields owned by s: run in two
\* states that agree on those fields and differ in the other fields, in
\* errors, in step and in submitting, it returns the same boolean and leaves
\* the same errors; run a second time with the fields unchanged it leaves the
\* same errors again.
C9_ValidateStepPure ==
  verdict.done
    => /\ verdict.a.ret = verdict.b.ret
       /\ verdict.a.errors = verdict.b.errors
       /\ verdict.again.ret = verdict.a.ret
       /\ verdict.again.errors = verdict.a.errors

\* validateStep(1) has failed alike in two states that differ in every field
\* of the other steps, in errors, in step and in submitting
C9_Witness ==
  /\ verdict.done
  /\ input.step = 1
  /\ \A f \in Fields \ {"name", "email"} :
       input.a.formData[f] # input.b.formData[f]
  /\ input.a.errors # input.b.errors
  /\ input.a.currentStep # input.b.currentStep
  /\ input.a.isSubmitting # input.b.isSubmitting
  /\ ~verdict.a.ret
  /\ verdict.b.errors = [email |-> "Invalid email address"]

\* C10: a submitForm run while the current step's fields fail the rule table
\* starts no simulated call, leaves submitting as it was (false stays false),
\* sets errors to the current step's failures and leaves fields and step
\* unchanged.
C10_SubmitFormFails ==
  [][(last'.op = "submitForm" /\ TableFailing(currentStep, formData) # {})
       => /\ pending' = pending
          /\ isSubmitting' = isSubmitting
          /\ errors' # EmptyErrors
          /\ errors' = TableErrors(currentStep, formData)
          /\ formData' = formData
          /\ currentStep' = currentStep]_vars

\* submitForm at the last step with no preference selected
C10_Witness ==
  /\ last.op = "submitForm"
  /\ ~last.ret
  /\ currentStep = 3
  /\ ~isSubmitting
  /\ pending = 0
  /\ errors = [preferences |-> "Please select a preference"]

\* C11: through the form, a submitForm on step 3 with valid fields sets
\* submitting and starts the simulated call; submitting is true as long as
\* the call is in flight; its completion leaves fields at the initial record
\* (all strings empty, newsletter false), step 1, errors empty and submitting
\* false.
C11_SubmitAndReset ==
  /\ [](pending > 0 => isSubmitting)
  /\ [][/\ (last'.op = "submitForm" /\ currentStep = 3
              /\ TableFailing(3, formData) = {})
             => /\ isSubmitting'
                /\ pending' = pending + 1
        /\ last'.op = "submitResume"
             => /\ formData' = [name |-> <<>>, email |-> <<>>, phone |-> <<>>,
                                address |-> <<>>, preferences |-> <<>>,
                                newsletter |-> FALSE]
                /\ currentStep' = 1
                /\ errors' = EmptyErrors
                /\ ~isSubmitting'
                /\ pending' = pending - 1]_vars

\* Scenario D: a submission from step 3 has completed
C11_Witness ==
  /\ last.op = "submitResume"
  /\ last.step = 3
  /\ formData.name = <<>>
  /\ formData.preferences = <<>>
  /\ currentStep = 1
  /\ ~isSubmitting
  /\ pending = 0

\* C12: through the form, at most one simulated submission is in flight at
\* any time, and submitting is true exactly while one is in flight.
C12_OneSubmission ==
  /\ pending <= 1
  /\ isSubmitting <=> pending = 1

\* a field of step 3 was edited while the one submission is in flight
C12_Witness ==
  /\ pending = 1
  /\ isSubmitting
  /\ last.op = "updateField"
  /\ last.field = "newsletter"

\* C19: through the form, submitting becomes true only at step 3, and while
\* it is true step stays 3 and errors stays empty; the completion then sets
\* step to 1.
C19_SubmitOnlyAtLastStep ==
  /\ [](isSubmitting => (currentStep = 3 /\ errors = EmptyErrors))
  /\ [][/\ (~isSubmitting /\ isSubmitting')
             => (currentStep = 3 /\ last'.op = "submitForm")
        /\ (isSubmitting /\ ~isSubmitting')
             => (currentStep' = 1 /\ last'.op = "submitResume")]_vars

\* during a submission the preference was set back to empty: step is still 3
\* and errors is still empty
C19_Witness ==
  /\ isSubmitting
  /\ currentStep = 3
  /\ last.op = "updateField"
  /\ formData.preferences = <<>>
  /\ errors = EmptyErrors

\* C20: submitForm called on the controller while submitting is already true,
\* the current step's fields passing, is not rejected: it starts one more
\* simulated call and leaves submitting true.
C20_NoReentrancyGuard ==
  [][(last'.op = "submitForm" /\ isSubmitting
        /\ TableFailing(currentStep, formData) = {})
       => /\ pending' = pending + 1
          /\ isSubmitting']_vars

\* a second submission was started while the first is in flight
C20_Witness ==
  /\ last.op = "submitForm"
  /\ last.ret
  /\ pending = 2
  /\ isSubmitting

\* q occurs in login, upper and lower case letters taken as the same
SameLetter(a, b) ==
  \/ a = b
  \/ {a, b} \in {{"a", "A"}, {"b", "B"}, {"l", "L"}}

ContainsCI(login, q) ==
  \E o \in 0..(Len(login) - Len(q)) :
    \A j \in 1..Len(q) : SameLetter(login[o + j], q[j])

\* the places of the items whose login contains q
Matching(items, q) == {i \in 1..Len(items) : ContainsCI(items[i].login, q)}

\* the k-th smallest element of a set of numbers
Nth(K, k) == CHOOSE i \in K : Cardinality({j \in K : j <= i}) = k

\* C13: the filtered view holds exactly the items whose login contains the
\* query case-insensitively, in the order and multiplicity received; the
\* empty query gives all items; the fetched list and the total shown are
\* those received, whatever queries were typed.
C13_FilteredView ==
  remote.status = "Ready"
    => LET items == input.body
           view == GitHubUsers(useFetch(remote), searchTerm)
           K == Matching(items, searchTerm)
       IN  /\ remote.items = Some(items)
           /\ view.total = Len(items)
           /\ Len(view.list) = Cardinality(K)
           /\ \A k \in 1..Len(view.list) : view.list[k] = items[Nth(K, k)]
           /\ searchTerm = <<>> => view.list = items

\* Scenario A: alice and bob were received, the query "alice" shows alice
C13_Witness ==
  /\ remote.items = Some(<<alice, bob>>)
  /\ searchTerm = <<"a", "l", "i", "c", "e">>
  /\ GitHubUsers(useFetch(remote), searchTerm).list = <<alice>>

\* C14: the screen shows the loading element iff the fetch is pending, the
\* error element iff it failed, "no users found matching" only when data is
\* present and no item matches the query, and always exactly one of loading,
\* error, no-results and the list.
C14_OneView ==
  LET shown == GitHubUsers(useFetch(remote), searchTerm).shown
  IN  /\ "loading" \in shown <=> remote.status = "Pending"
      /\ "error" \in shown <=> remote.status = "Failed"
      /\ "no-results" \in shown
           => /\ remote.status = "Ready"
              /\ Matching(input.body, searchTerm) = {}
      /\ Cardinality(shown \cap {"loading", "error", "no-results",
                                 "users-list"}) = 1

\* Scenario A: alice and bob were received, the query "charlie" matches none
C14_Witness ==
  /\ remote.items = Some(<<alice, bob>>)
  /\ searchTerm = <<"c", "h", "a", "r", "l", "i", "e">>
  /\ "no-results" \in GitHubUsers(useFetch(remote), searchTerm).shown
  /\ "loading" \notin GitHubUsers(useFetch(remote), searchTerm).shown

\* C15: the remote list starts Pending with no items; it changes once, to
\* Ready with the items as received or to Failed with a non-empty message,
\* and never again (no call follows a failure); a failure is present iff the
\* status is Failed.
C15_FetchLifecycle ==
  /\ remote = [status |-> "Pending", items |-> <<>>, failure |-> <<>>]
  /\ [](/\ remote.status \in {"Pending", "Ready", "Failed"}
        /\ remote.status = "Pending" => remote.items = <<>>
        /\ remote.status = "Ready" => remote.items = <<input.body>>
        /\ remote.failure # <<>> <=> remote.status = "Failed"
        /\ remote.status = "Failed"
             => /\ remote.failure = <<input.message>>
                /\ input.message # ""
                /\ inflight = 0)
  /\ [][remote.status # "Pending" => remote' = remote]_vars

\* the fetch has failed and the screen has rendered the failure
C15_Witness ==
  /\ remote.status = "Failed"
  /\ remote.failure = <<"Failed to fetch">>
  /\ renders = 2
  /\ inflight = 0

\* C16: one outbound call is issued per mount: no render of the screen after
\* the first, whether caused by the answer or by a change of the query,
\* issues another.
C16_OneCall == calls = 1

\* the query was changed twice after the answer and one call was issued
C16_Witness ==
  /\ renders = 4
  /\ remote.status = "Ready"
  /\ searchTerm # <<>>
  /\ calls = 1

\* C17: a click on a Button calls onClick exactly once when neither disabled
\* nor loading is set, and not at all when disabled or loading is set.
C17_ClickCallsOnClick ==
  [][verdict'.clicks = verdict.clicks + 1
       => verdict'.calls = verdict.calls
                             + (IF input.disabled \/ input.loading THEN 0
                                ELSE 1)]_vars

\* C18: useForm called outside a FormProvider throws and returns nothing;
\* called inside one it does not throw and returns the provider's whole
\* value.
C18_UseFormFailsFast ==
  verdict.done
    => /\ ~input.inside
            => /\ verdict.thrown
               /\ verdict.message # ""
               /\ verdict.returned = <<>>
       /\ input.inside
            => /\ ~verdict.thrown
               /\ verdict.returned = <<input.value>>

\* useForm was called outside a provider and has thrown
C18_Witness ==
  /\ verdict.done
  /\ ~input.inside
  /\ verdict.thrown

\* C21: a failed validation is reported by the false return and by errors,
\* never by an exception; after a nextStep or submitForm failed at step s,
\* once every field owned by s holds a valid value the next nextStep at s
\* advances and the next submitForm at s starts the submission.
C21_Recoverable ==
  [][last'.op \in {"nextStep", "submitForm"}
       => /\ last'.ret \in BOOLEAN
          /\ ~last'.ret => /\ errors' # EmptyErrors
                           /\ currentStep' = currentStep
                           /\ pending' = pending
          /\ (verdict.failedAt = currentStep
                /\ \A f \in OwnedBy(currentStep) :
                     TableMessage(f, formData[f]) = "")
               => /\ last'.ret
                  /\ errors' = EmptyErrors
                  /\ last'.op = "nextStep"
                       => currentStep' = (IF currentStep < 3
                                          THEN currentStep + 1 ELSE 3)
                  /\ last'.op = "submitForm"
                       => isSubmitting' /\ pending' = pending + 1]_vars

\* nextStep failed at step 2, phone and address were then edited, and the
\* next nextStep advanced to step 3
C21_Witness ==
  /\ last.op = "nextStep"
  /\ last.step = 2
  /\ last.ret
  /\ verdict.recovered
  /\ currentStep = 3

\* C22: with the completion timer fair, whenever submitting is true then
\* eventually submitting is false and fields, step and errors hold their
\* initial values; submitting becomes false, and a pending submission ends,
\* only by the completion (no timeout, retry or cancellation).
C22_SubmissionCompletes ==
  /\ isSubmitting
       ~> (/\ ~isSubmitting
           /\ formData = [name |-> <<>>, email |-> <<>>, phone |-> <<>>,
                          address |-> <<>>, preferences |-> <<>>,
                          newsletter |-> FALSE]
           /\ currentStep = 1
           /\ DOMAIN errors = {})
  /\ [][(isSubmitting /\ ~isSubmitting') \/ pending' < pending
          => /\ last'.op = "submitResume"
             /\ pending' = pending - 1]_vars

\* a submission has completed: the form is back at step 1, not submitting,
\* with no timer left
C22_Witness ==
  /\ last.op = "submitResume"
  /\ ~isSubmitting
  /\ currentStep = 1
  /\ pending = 0

\* C30: validateStep(s) with s outside 1..3 parses no schema: it returns
\* true and empties errors whatever the fields hold, and changes nothing
\* else.
C30_StepOutOfRange ==
  [][(last'.op = "validateStep" /\ last'.step \notin 1..3)
       => /\ last'.ret
          /\ DOMAIN errors' = {}
          /\ formData' = formData
          /\ currentStep' = currentStep
          /\ isSubmitting' = isSubmitting
          /\ pending' = pending]_vars

\* validateStep(4) has returned true while no field holds a valid value
C30_Witness ==
  /\ last.op = "validateStep"
  /\ last.step = 4
  /\ last.ret
  /\ DOMAIN errors = {}
  /\ \A k \in 1..3 : TableFailing(k, formData) # {}

\* C27: through the form surface, whenever step = k every field owned by a
\* step below k satisfies its rules, and whenever a submission starts the
\* fields of all three steps are valid.
C27_EarlierStepsValid ==
  /\ [](\A j \in 1..3 : j < currentStep => TableFailing(j, formData) = {})
  /\ [][(last'.op = "submitForm" /\ last'.ret)
          => \A j \in 1..3 : TableFailing(j, formData') = {}]_vars

\* a submission has started at step 3 and the fields of all steps are valid
C27_Witness ==
  /\ last.op = "submitForm"
  /\ last.ret
  /\ isSubmitting
  /\ currentStep = 3
  /\ \A j \in 1..3 : TableFailing(j, formData) = {}

\* C26: every key of errors is a field whose current value fails the rule
\* whose message is recorded; keys enter errors only by a validation;
\* through the form surface every key is owned by the current step; errors
\* is empty after a successful nextStep, a prevStep and a completed
\* submission.
C26_ErrorsNotStale ==
  /\ [](\A f \in DOMAIN errors :
          /\ errors[f] # ""
          /\ errors[f] = TableMessage(f, formData[f])
          /\ f \in OwnedBy(currentStep))
  /\ [][/\ (\E f \in DOMAIN errors' : f \notin DOMAIN errors)
               => (last'.op \in {"nextStep", "submitForm"} /\ ~last'.ret)
        /\ ((last'.op = "nextStep" /\ last'.ret)
               \/ last'.op \in {"prevStep", "submitResume"})
               => DOMAIN errors' = {}]_vars

\* Next failed at step 2 on both fields; phone was then edited, so only the
\* error of address is left and address still fails
C26_Witness ==
  /\ last.op = "updateField"
  /\ last.field = "phone"
  /\ currentStep = 2
  /\ DOMAIN errors = {"address"}
  /\ formData.address = <<>>

\* the sign-up rules, stated on their own: the fields that fail
SignUpFailing(data) ==
  {f \in {"name", "email", "password", "confirmPassword"} :
     \/ f = "name" /\ TrimmedLength(data.name) < 2
     \/ f = "email" /\ ~EmailShape(data.email)
     \/ f = "password" /\ Len(data.password) < 6
     \/ f = "confirmPassword"
          /\ (data.confirmPassword = <<>>
                \/ data.confirmPassword # data.password)}

\* the fields whose error the form shows
SignUpShown(e) == {f \in DOMAIN e : e[f] # <<>>}

\* C25: handleSubmit empties the four fields and errors iff name, email,
\* password and confirmPassword all pass; otherwise the fields are unchanged
\* and errors holds one message for each failing field and for no other;
\* handleChange sets only the edited field and removes only that field's
\* error, so a mismatch made by editing password shows no error until the
\* next submit.
C25_SignUp ==
  [][/\ verdict'.op = "handleSubmit"
          => IF SignUpFailing(verdict.formData) = {}
               THEN /\ verdict'.ret
                    /\ \A f \in DOMAIN verdict'.formData :
                         verdict'.formData[f] = <<>>
                    /\ DOMAIN verdict'.errors = {}
               ELSE /\ ~verdict'.ret
                    /\ verdict'.formData = verdict.formData
                    /\ DOMAIN verdict'.errors = SignUpFailing(verdict.formData)
                    /\ \A f \in DOMAIN verdict'.errors :
                         /\ Len(verdict'.errors[f]) = 1
                         /\ verdict'.errors[f][1] # ""
     /\ verdict'.op = "handleChange"
          => /\ \A g \in DOMAIN verdict.formData \ {verdict'.field} :
                  verdict'.formData[g] = verdict.formData[g]
             /\ SignUpShown(verdict'.errors)
                  = SignUpShown(verdict.errors) \ {verdict'.field}
             /\ \A g \in SignUpShown(verdict'.errors) :
                  verdict'.errors[g] = verdict.errors[g]]_vars

\* password was edited away from a matching confirmPassword: no error is
\* shown for confirmPassword
C25_Witness ==
  /\ verdict.op = "handleChange"
  /\ verdict.field = "password"
  /\ verdict.formData.confirmPassword # <<>>
  /\ verdict.formData.password # verdict.formData.confirmPassword
  /\ Len(verdict.formData.password) >= 6
  /\ SignUpShown(verdict.errors) = {}

\* C23: once the provider is unmounted, the completion of a pending
\* submission changes no controller state, renders nothing and shows
\* nothing to the user.
C23_DiscardedAfterTeardown ==
  [][~input.mounted
       => /\ formData' = formData
          /\ errors' = errors
          /\ currentStep' = currentStep
          /\ isSubmitting' = isSubmitting
          /\ input' = input
          /\ verdict'.effect # "alert"]_vars

\* C24: while the continuation of a submission runs the screen still shows
\* submitting; the first render that shows submitting = false shows the
\* fields, the step and errors at their initial values.
C24_ResetIsOneRender ==
  /\ []((input.mounted /\ verdict.pc > 0) => input.view.isSubmitting)
  /\ [][(input.view.isSubmitting /\ ~input'.view.isSubmitting)
          => /\ input'.view.formData
                  = [name |-> <<>>, email |-> <<>>, phone |-> <<>>,
                     address |-> <<>>, preferences |-> <<>>,
                     newsletter |-> FALSE]
             /\ input'.view.currentStep = 1
             /\ DOMAIN input'.view.errors = {}]_vars

\* the render after the last statement of a continuation
C24_Witness ==
  /\ last.op = "render"
  /\ last.value = <<"setErrors">>
  /\ ~input.view.isSubmitting
  /\ input.view.currentStep = 1

\* C28: the payload logged at completion is the fields as they were when
\* submitForm was called, whatever updateField has done since; when the
\* continuation ends the fields are the initial ones.
C28_PayloadAtCall ==
  [][/\ last'.op = "console.log"
          => verdict'.logged = <<verdict.job[1].atCall>>
     /\ (last'.op = "setErrors" /\ input.mounted)
          => formData' = [name |-> <<>>, email |-> <<>>, phone |-> <<>>,
                          address |-> <<>>, preferences |-> <<>>,
                          newsletter |-> FALSE]]_vars

\* newsletter was switched while the submission was pending: the payload
\* just logged holds the value it had at the call
C28_Witness ==
  /\ last.op = "console.log"
  /\ verdict.logged # <<>>
  /\ verdict.logged[1].newsletter # formData.newsletter
  /\ verdict.logged[1].preferences = formData.preferences

\* C29: nextStep and submitForm validate the latest values: they return
\* true iff the current step's fields, with every updateField dispatched
\* before them applied, pass the rule table - also when React has not
\* rendered between the two calls.
C29_ValidatesLatest ==
  [][last'.op \in {"nextStep", "submitForm"}
       => last'.ret = (TableFailing(currentStep, formData) = {})]_vars

====
